---------------------------- MODULE Spec2Model ----------------------------
(***************************************************************************)
(* Model of the adaptive game assistant: the Game state machine            *)
(* (adaptive_game_module/adaptive_game.py and the older copy embedded in   *)
(* assistant.py), the LevelSelector, the HintGiver and the FlagChecker.    *)
(*                                                                         *)
(* Strings are TLC strings; "+" of Python is \o, str(n) is ToString(n) and *)
(* the slices s[1:], s[6:] are Slice(s, 1), Slice(s, 6).                   *)
(*                                                                         *)
(* time.time() is a non-decreasing clock counted in ticks of               *)
(* 1/TicksPerSecond second; every call of time.time() is a separate read   *)
(* and the clock may advance before each read.  int(x) truncates a         *)
(* difference of two reads to whole seconds.                               *)
(*                                                                         *)
(* subprocess.run(["vagrant", "up", ...]) either returns or raises (the    *)
(* provisioning failure), and so does subprocess.run(["vagrant",           *)
(* "destroy", "-f"]).  The snapshot write of abort_game either succeeds or *)
(* raises OSError.                                                         *)
(***************************************************************************)
EXTENDS Naturals, Integers, Sequences, FiniteSets, TLC

VARIABLES
    \* ---- Game (adaptive_game.py / assistant.py)
    variant,            \* which of the two Game classes is running
    level_mapping,      \* dict: level name -> dict: branch name -> boxes
    level,
    branch,
    load_times,
    solving_times,
    level_log,
    game_start_time,
    level_start_time,
    game_end_time,
    game_in_progress,
    game_finished,
    \* ---- LevelSelector
    level_requirements, \* dict: level name -> list of <<name, requirements>>
    known_tools,
    \* ---- HintGiver
    hints,              \* dict: level -> dict: level+branch -> dict: name -> text
    hints_taken,
    total_hints_taken,
    \* ---- FlagChecker
    flags,              \* dict: level -> expected flag
    wrong_flags,
    \* ---- environment and observation
    clock,              \* the value the next time.time() is at least
    failed_calls,       \* start_game/next_level calls that raised after they
                        \* had changed the state, since construction or abort
    last                \* the last call: its name, argument, result, the
                        \* exception it raised, the subprocess calls it made

gameVars == <<level, branch, load_times, solving_times, level_log,
              game_start_time, level_start_time, game_end_time,
              game_in_progress, game_finished>>
selectorVars == <<level_requirements, known_tools>>
hintVars == <<hints, hints_taken, total_hints_taken>>
flagVars == <<flags, wrong_flags>>
\* what start_game, next_level, finish_game and abort_game never assign
notGame == <<variant, level_mapping, selectorVars, hintVars, flagVars>>
vars == <<variant, level_mapping, gameVars, selectorVars, hintVars, flagVars,
          clock, failed_calls, last>>

-----------------------------------------------------------------------------
(* Bounds *)

MaxClock == 3           \* the clock runs from 1 to MaxClock ticks
TicksPerSecond == 2     \* clock resolution
MaxJump == 2            \* most ticks that pass before one clock read

-----------------------------------------------------------------------------
(* Python helpers *)

\* s[k:]
Slice(s, k) == IF Len(s) <= k THEN "" ELSE SubSeq(s, k + 1, Len(s))

\* str(n)
Str(n) == ToString(n)

\* int(t2 - t1) for two clock reads t1 <= t2
IntSeconds(ticks) == ticks \div TicksPerSecond

\* "level" + str(n)
LevelName(n) == "level" \o Str(n)

None == "None"
True == "True"
False == "False"

Call(op, arg, ret, exc, calls) ==
    [op |-> op, arg |-> arg, ret |-> ret, exc |-> exc, calls |-> calls]

\* subprocess.run(["vagrant", "up"] + boxes + ["--provision"], env ANSIBLE_ARGS tag)
VagrantUp(boxes, tag) == [argv |-> <<"vagrant", "up">> \o boxes, tag |-> tag]
VagrantDestroy == [argv |-> <<"vagrant", "destroy", "-f">>, tag |-> ""]

\* the clock reads possible now
Reads(from) == {t \in from..MaxClock : t <= from + MaxJump}

-----------------------------------------------------------------------------
(* Level graphs supplied by the configuration file *)

\* a graph from the branch suffixes of its levels 1..Len(shape)
MakeGraph(shape) ==
    [name \in {LevelName(i) : i \in DOMAIN shape} |->
        LET i == CHOOSE j \in DOMAIN shape : LevelName(j) = name
        IN  [b \in {name \o s : s \in shape[i]} |-> <<"box_" \o b>>]]

Unforked == {""}
Graphs ==
    { MakeGraph(<<Unforked, {"a", "b"}, Unforked>>),
      MakeGraph(<<Unforked, Unforked>>),
      MakeGraph(<<Unforked, {"a"}>>) }

\* a game of ten levels, the last one forked
TenLevels ==
    MakeGraph(<<Unforked, Unforked, Unforked, Unforked, Unforked,
                Unforked, Unforked, Unforked, Unforked, {"a", "b"}>>)

\* a forked level one of whose suffixes starts with the level's number
DigitSuffix == MakeGraph(<<Unforked, {"a", "2a"}>>)

\* a forked level one of whose suffixes is the name of another of its branches
NameSuffix == MakeGraph(<<Unforked, {"a", "level2a"}>>)

\* Game(mapping_file, game_directory, level_number, level_branch)
LevelNumbers == {0, 2}
LevelBranches == {"", "a"}

\* what a learner may type as the branch of level n
Suffixes == {"a", "b", "2a"}
Tokens(n) ==
    {"", "z"} \cup Suffixes
        \cup {Str(n) \o s : s \in Suffixes}
        \cup {LevelName(n) \o s : s \in Suffixes}

\* what the learner types in the game
GameTokens(n) == {"", "z", "a", Str(n) \o "a", LevelName(n) \o "b"}

-----------------------------------------------------------------------------
(* Game *)

next_level_exists == LevelName(level + 1) \in DOMAIN level_mapping

next_level_is_forked ==
    /\ LevelName(level + 1) \in DOMAIN level_mapping
    /\ Cardinality(DOMAIN level_mapping[LevelName(level + 1)]) > 1

\* the branch names of the next level (a KeyError when it does not exist)
NextBranches == DOMAIN level_mapping[LevelName(level + 1)]

\* next_level_branch_check(input_text): [ok |-> the call returned, value]
next_level_branch_check_WordOnlyCut(input_text) ==
    IF LevelName(level + 1) \o input_text \in NextBranches
    THEN [ok |-> TRUE, value |-> input_text]
    ELSE IF "level" \o input_text \in NextBranches
    THEN [ok |-> TRUE, value |-> Slice(input_text, 1)]
    ELSE IF input_text \in NextBranches
    THEN [ok |-> TRUE, value |-> Slice(input_text, 5)]
    ELSE [ok |-> FALSE, value |-> ""]

next_level_branch_check_WordFirst(input_text) ==
    IF "level" \o input_text \in NextBranches
    THEN [ok |-> TRUE, value |-> Slice(input_text, 1)]
    ELSE IF LevelName(level + 1) \o input_text \in NextBranches
    THEN [ok |-> TRUE, value |-> input_text]
    ELSE IF input_text \in NextBranches
    THEN [ok |-> TRUE, value |-> Slice(input_text, 6)]
    ELSE [ok |-> FALSE, value |-> ""]

next_level_branch_check(input_text) ==
    IF LevelName(level + 1) \o input_text \in NextBranches
    THEN [ok |-> TRUE, value |-> input_text]
    ELSE IF "level" \o input_text \in NextBranches
    THEN [ok |-> TRUE, value |-> Slice(input_text, 1)]
    ELSE IF input_text \in NextBranches
    THEN [ok |-> TRUE, value |-> Slice(input_text, 6)]
    ELSE [ok |-> FALSE, value |-> ""]

\* Game.__init__ but for level_mapping, level and branch, its parameters
GameFresh ==
    /\ load_times = <<>>
    /\ solving_times = <<>>
    /\ level_log = <<>>
    /\ game_start_time = 0
    /\ level_start_time = 0
    /\ game_in_progress = FALSE
    /\ game_finished = FALSE
    /\ game_end_time = 0

GameInit ==
    /\ GameFresh
    /\ variant \in {"module", "assistant"}
    /\ level_mapping \in Graphs
    /\ level \in LevelNumbers
    /\ branch \in LevelBranches

\* the lifecycle the two flags stand for, as print_info reads them
Lifecycle ==
    IF game_in_progress /\ game_finished THEN "BOTH"
    ELSE IF game_in_progress THEN "IN_PROGRESS"
    ELSE IF game_finished THEN "FINISHED"
    ELSE "NOT_STARTED"

\* start_game goes on: not (game_in_progress or game_finished)
StartAllowed_FinishedForgotten == ~game_in_progress
StartAllowed == ~(game_in_progress \/ game_finished)

\* finish_game goes on: not (next_level_exists() or not game_in_progress)
FinishAllowed_NotGated == game_in_progress
FinishAllowed_AnyLifecycle == ~next_level_exists
FinishAllowed_NextLevelIgnored == game_in_progress /\ level > 1
FinishAllowed == ~(next_level_exists \/ ~game_in_progress)

\* start_game() when a game is in progress or finished
StartRefused ==
    /\ ~StartAllowed
    /\ last' = Call("start_game", "", False, "", <<>>)
    /\ UNCHANGED <<notGame, gameVars, clock, failed_calls>>

\* start_game(), "vagrant up" returns
StartOk ==
    /\ StartAllowed
    /\ \E start_time \in Reads(clock) :
       \E end_time \in Reads(start_time) :
       \E t3 \in Reads(end_time) :
       \E t4 \in Reads(t3) :
          /\ game_in_progress' = TRUE
          /\ level' = 1
          /\ level_log' = Append(level_log, "level1")
          /\ load_times' = Append(load_times, IntSeconds(end_time - start_time))
          /\ level_start_time' = t3
          /\ game_start_time' = t4
          /\ clock' = t4
    /\ last' = Call("start_game", "", True, "", <<VagrantUp(<<>>, "setup")>>)
    /\ UNCHANGED <<notGame, branch, solving_times, game_end_time, game_finished,
                   failed_calls>>

\* start_game(), "vagrant up" raises
StartFails ==
    /\ StartAllowed
    /\ \E start_time \in Reads(clock) :
          /\ game_in_progress' = TRUE
          /\ level' = 1
          /\ level_log' = Append(level_log, "level1")
          /\ clock' = start_time
    /\ failed_calls' = failed_calls + 1
    /\ last' = Call("start_game", "", None, "ProvisioningFailure",
                    <<VagrantUp(<<>>, "setup")>>)
    /\ UNCHANGED <<notGame, branch, load_times, solving_times, game_start_time,
                   level_start_time, game_end_time, game_finished>>

start_game == StartRefused \/ StartOk \/ StartFails


\* the error next_level(next_branch_input) raises before it changes anything
\* ("" when it raises none).  The code raises NoLevelFoundError each time; the
\* names are those of its four messages.
NextLevelError_ExistsFirst(next_branch_input) ==
    IF ~next_level_exists THEN "NoNextLevel"
    ELSE IF ~game_in_progress THEN "NotStarted"
    ELSE IF next_level_is_forked
         THEN IF next_level_branch_check(next_branch_input).ok
              THEN "" ELSE "BranchNotFound"
         ELSE IF next_branch_input # "" THEN "UnexpectedBranch" ELSE ""

NextLevelError(next_branch_input) ==
    IF ~game_in_progress THEN "NotStarted"
    ELSE IF ~next_level_exists THEN "NoNextLevel"
    ELSE IF next_level_is_forked
         THEN IF next_level_branch_check(next_branch_input).ok
              THEN "" ELSE "BranchNotFound"
         ELSE IF next_branch_input # "" THEN "UnexpectedBranch" ELSE ""

\* next_branch of next_level once the checks passed
NextBranch(next_branch_input) ==
    IF next_level_is_forked
    THEN next_level_branch_check(next_branch_input).value
    ELSE ""

\* level_name of next_level
NextLevelName(next_branch_input) ==
    LevelName(level + 1) \o NextBranch(next_branch_input)

\* next_level(next_branch_input) raising NoLevelFoundError
AdvanceRejected ==
    \E next_branch_input \in GameTokens(level + 1) :
        /\ NextLevelError(next_branch_input) # ""
        /\ last' = Call("next_level", next_branch_input, None,
                        NextLevelError(next_branch_input), <<>>)
        /\ UNCHANGED <<notGame, gameVars, clock, failed_calls>>

\* lines 135-139 of next_level: the state is advanced before the lookup
AdvanceState_LogSkipped(next_branch_input, t0) ==
    /\ solving_times' = Append(solving_times, IntSeconds(t0 - level_start_time))
    /\ level' = level + 1
    /\ branch' = NextBranch(next_branch_input)
    /\ level_log' = level_log

AdvanceState_SolvingSkipped(next_branch_input, t0) ==
    /\ solving_times' = solving_times
    /\ level' = level + 1
    /\ branch' = NextBranch(next_branch_input)
    /\ level_log' = Append(level_log, NextLevelName(next_branch_input))

AdvanceState_LogRestarted(next_branch_input, t0) ==
    /\ solving_times' = Append(solving_times, IntSeconds(t0 - level_start_time))
    /\ level' = level + 1
    /\ branch' = NextBranch(next_branch_input)
    /\ level_log' = <<NextLevelName(next_branch_input)>>

AdvanceState(next_branch_input, t0) ==
    /\ solving_times' = Append(solving_times, IntSeconds(t0 - level_start_time))
    /\ level' = level + 1
    /\ branch' = NextBranch(next_branch_input)
    /\ level_log' = Append(level_log, NextLevelName(next_branch_input))

\* next_level(next_branch_input), "vagrant up" returns
AdvanceOk ==
    \E next_branch_input \in GameTokens(level + 1) :
        /\ NextLevelError(next_branch_input) = ""
        /\ NextLevelName(next_branch_input) \in NextBranches
        /\ \E t0 \in Reads(clock) :
           \E start_time \in Reads(t0) :
           \E end_time \in Reads(start_time) :
           \E t3 \in Reads(end_time) :
              /\ AdvanceState(next_branch_input, t0)
              /\ load_times' = Append(load_times, IntSeconds(end_time - start_time))
              /\ level_start_time' = t3
              /\ clock' = t3
        /\ last' = Call("next_level", next_branch_input, None, "",
                        <<VagrantUp(
                            level_mapping[LevelName(level + 1)][NextLevelName(next_branch_input)]
                                \o <<"--provision">>,
                            NextLevelName(next_branch_input))>>)
        /\ UNCHANGED <<notGame, game_start_time, game_end_time, game_in_progress,
                       game_finished, failed_calls>>

\* next_level(next_branch_input), "vagrant up" raises
AdvanceProvisioningFails ==
    \E next_branch_input \in GameTokens(level + 1) :
        /\ NextLevelError(next_branch_input) = ""
        /\ NextLevelName(next_branch_input) \in NextBranches
        /\ \E t0 \in Reads(clock) :
           \E start_time \in Reads(t0) :
              /\ AdvanceState(next_branch_input, t0)
              /\ clock' = start_time
        /\ failed_calls' = failed_calls + 1
        /\ last' = Call("next_level", next_branch_input, None, "ProvisioningFailure",
                        <<VagrantUp(
                            level_mapping[LevelName(level + 1)][NextLevelName(next_branch_input)]
                                \o <<"--provision">>,
                            NextLevelName(next_branch_input))>>)
        /\ UNCHANGED <<notGame, load_times, game_start_time, level_start_time,
                       game_end_time, game_in_progress, game_finished>>

\* next_level(next_branch_input), level_name is no key of the level (line 140)
AdvanceKeyError ==
    \E next_branch_input \in GameTokens(level + 1) :
        /\ NextLevelError(next_branch_input) = ""
        /\ NextLevelName(next_branch_input) \notin NextBranches
        /\ \E t0 \in Reads(clock) :
              /\ AdvanceState(next_branch_input, t0)
              /\ clock' = t0
        /\ failed_calls' = failed_calls + 1
        /\ last' = Call("next_level", next_branch_input, None, "KeyError", <<>>)
        /\ UNCHANGED <<notGame, load_times, game_start_time, level_start_time,
                       game_end_time, game_in_progress, game_finished>>

next_level ==
    AdvanceRejected \/ AdvanceOk \/ AdvanceProvisioningFails \/ AdvanceKeyError

\* finish_game() returning False
FinishRefused ==
    /\ ~FinishAllowed
    /\ last' = Call("finish_game", "", False, "", <<>>)
    /\ UNCHANGED <<notGame, gameVars, clock, failed_calls>>

\* finish_game() returning True
FinishOk_SolvingTimeForgotten ==
    /\ FinishAllowed
    /\ \E t0 \in Reads(clock) :
       \E t1 \in Reads(t0) :
          /\ game_end_time' = t1
          /\ clock' = t1
    /\ game_in_progress' = FALSE
    /\ game_finished' = TRUE
    /\ last' = Call("finish_game", "", True, "", <<>>)
    /\ UNCHANGED <<notGame, level, branch, load_times, level_log, game_start_time,
                   level_start_time, solving_times, failed_calls>>

FinishOk_StillInProgress ==
    /\ FinishAllowed
    /\ \E t0 \in Reads(clock) :
       \E t1 \in Reads(t0) :
          /\ solving_times' = Append(solving_times, IntSeconds(t0 - level_start_time))
          /\ game_end_time' = t1
          /\ clock' = t1
    /\ game_finished' = TRUE
    /\ last' = Call("finish_game", "", True, "", <<>>)
    /\ UNCHANGED <<notGame, level, branch, load_times, level_log, game_start_time,
                   level_start_time, game_in_progress, failed_calls>>

FinishOk ==
    /\ FinishAllowed
    /\ \E t0 \in Reads(clock) :
       \E t1 \in Reads(t0) :
          /\ solving_times' = Append(solving_times, IntSeconds(t0 - level_start_time))
          /\ game_end_time' = t1
          /\ clock' = t1
    /\ game_in_progress' = FALSE
    /\ game_finished' = TRUE
    /\ last' = Call("finish_game", "", True, "", <<>>)
    /\ UNCHANGED <<notGame, level, branch, load_times, level_log, game_start_time,
                   level_start_time, failed_calls>>

finish_game == FinishRefused \/ FinishOk

\* what the snapshot write of abort_game meets: no logs/dumps directory, a
\* written file, or an OSError
Snapshots == {"nodir", "written", "oserror"}

\* whether abort_game gets past its snapshot write: adaptive_game.py catches
\* the OSError (lines 154-160), assistant.py does not (lines 156-157)
SnapshotPassed(snapshot) == variant = "module" \/ snapshot # "oserror"

\* abort_game(), "vagrant destroy" returns: the attributes are reset
AbortOk ==
    \E snapshot \in Snapshots :
        /\ SnapshotPassed(snapshot)
        /\ \E t0 \in Reads(clock) :
              clock' = IF snapshot = "nodir" THEN clock ELSE t0
        /\ load_times' = <<>>
        /\ solving_times' = <<>>
        /\ level_log' = <<>>
        /\ game_start_time' = 0
        /\ level_start_time' = 0
        /\ game_in_progress' = FALSE
        /\ game_finished' = FALSE
        /\ level' = 0
        /\ branch' = ""
        /\ failed_calls' = 0
        /\ last' = Call("abort_game", snapshot, None, "", <<VagrantDestroy>>)
        /\ UNCHANGED <<notGame, game_end_time>>

\* abort_game() of assistant.py raising the OSError of its snapshot write
AbortRaises ==
    \E snapshot \in Snapshots :
        /\ ~SnapshotPassed(snapshot)
        /\ \E t0 \in Reads(clock) : clock' = t0
        /\ last' = Call("abort_game", snapshot, None, "OSError", <<>>)
        /\ UNCHANGED <<notGame, gameVars, failed_calls>>

\* abort_game(), "vagrant destroy" raises (line 161; assistant.py line 158):
\* no attribute is reset
AbortTeardownFails ==
    \E snapshot \in Snapshots :
        /\ SnapshotPassed(snapshot)
        /\ \E t0 \in Reads(clock) :
              clock' = IF snapshot = "nodir" THEN clock ELSE t0
        /\ last' = Call("abort_game", snapshot, None, "ProvisioningFailure",
                        <<VagrantDestroy>>)
        /\ UNCHANGED <<notGame, gameVars, failed_calls>>

abort_game == AbortOk \/ AbortRaises \/ AbortTeardownFails

\* a direct call of next_level_branch_check(input_text)
BranchCheck ==
    \E input_text \in Tokens(level + 1) :
        /\ last' = IF ~next_level_exists
                   THEN Call("next_level_branch_check", input_text, None, "KeyError", <<>>)
                   ELSE IF next_level_branch_check(input_text).ok
                   THEN Call("next_level_branch_check", input_text,
                             next_level_branch_check(input_text).value, "", <<>>)
                   ELSE Call("next_level_branch_check", input_text, None,
                             "BranchNotFound", <<>>)
        /\ UNCHANGED <<notGame, gameVars, clock, failed_calls>>

GameNext == start_game \/ next_level \/ finish_game \/ abort_game

\* read_mapping(filename) on a constructed Game: the mapping is replaced by
\* what the file holds and nothing else is assigned; OSError, and the
\* mapping as it was, when the file cannot be opened
read_mapping ==
    /\ \/ \E mapping \in Graphs :
             /\ level_mapping' = mapping
             /\ last' = Call("read_mapping", "file", None, "", <<>>)
       \/ /\ level_mapping' = level_mapping
          /\ last' = Call("read_mapping", "missing", None, "OSError", <<>>)
    /\ UNCHANGED <<variant, gameVars, selectorVars, hintVars, flagVars,
                   clock, failed_calls>>

-----------------------------------------------------------------------------
(* The other components, as constructed *)

GameIdle ==
    /\ GameFresh
    /\ variant = "module"
    /\ level_mapping = MakeGraph(<<Unforked, {"a", "b"}, Unforked>>)
    /\ level = 0
    /\ branch = ""

SelectorIdle ==
    /\ level_requirements = <<>>
    /\ known_tools = <<>>

HintsIdle ==
    /\ hints = <<>>
    /\ hints_taken = <<>>
    /\ total_hints_taken = 0

FlagsIdle ==
    /\ flags = <<>>
    /\ wrong_flags = <<>>

EnvInit ==
    /\ clock = 1
    /\ failed_calls = 0
    /\ last = Call("__init__", "", None, "", <<>>)

-----------------------------------------------------------------------------
(* The game state machine alone *)

Init == GameInit /\ SelectorIdle /\ HintsIdle /\ FlagsIdle /\ EnvInit

Next == GameNext \/ read_mapping

Spec == Init /\ [][Next]_vars

-----------------------------------------------------------------------------
(* The interactive branch resolver alone: next_level_branch_check called   *)
(* on a Game constructed at any level of any of the graphs                 *)

MaxLevelNumber == 9

ResolverInit ==
    /\ GameFresh
    /\ variant \in {"module", "assistant"}
    /\ level_mapping \in Graphs \cup {TenLevels, DigitSuffix, NameSuffix}
    /\ level \in 0..MaxLevelNumber
    /\ branch = ""
    /\ SelectorIdle /\ HintsIdle /\ FlagsIdle /\ EnvInit

ResolverNext == BranchCheck \/ read_mapping

SpecResolver == ResolverInit /\ [][ResolverNext]_vars

-----------------------------------------------------------------------------
(* LevelSelector (level_selector.py) *)

\* requirements of a candidate: <<>> stands for None, else <<time, tool>>
NoRequirements == <<>>

MaxCandidates == 3      \* most candidates of a level
MaxElapsed == 2         \* current_time is 0..MaxElapsed
Thresholds == {1, 2}
Tools == {"nmap", "ssh"}

CandidateName(i) == "level2" \o SubSeq("abcdefgh", i, i)

Requirements ==
    {NoRequirements} \cup {<<t, tool>> : t \in Thresholds, tool \in Tools}

\* the lists of 0..MaxCandidates pairs (level, requirements)
CandidateLists ==
    UNION { [1..n -> Requirements] : n \in 0..MaxCandidates }

SelectorInit ==
    /\ \E reqs \in CandidateLists :
          level_requirements =
              [l \in {"level2"} |->
                  [i \in DOMAIN reqs |-> <<CandidateName(i), reqs[i]>>]]
    /\ known_tools = <<>>

\* tool in self.known_tools
Known(tool) == \E i \in DOMAIN known_tools : known_tools[i] = tool

\* the for loop of next_level from entry i on, candidate_level so far
RECURSIVE Scan(_, _, _, _)
Scan_NotStrict(next_levels, i, current_time, candidate_level) ==
    IF i > Len(next_levels) THEN candidate_level
    ELSE LET requirements == next_levels[i][2]
         IN  IF requirements = NoRequirements
             THEN Scan(next_levels, i + 1, current_time, next_levels[i][1])
             ELSE IF requirements[1] >= current_time /\ Known(requirements[2])
             THEN Scan(next_levels, i + 1, current_time, next_levels[i][1])
             ELSE Scan(next_levels, i + 1, current_time, candidate_level)

Scan(next_levels, i, current_time, candidate_level) ==
    IF i > Len(next_levels) THEN candidate_level
    ELSE LET requirements == next_levels[i][2]
         IN  IF requirements = NoRequirements
             THEN Scan(next_levels, i + 1, current_time, next_levels[i][1])
             ELSE IF requirements[1] > current_time /\ Known(requirements[2])
             THEN Scan(next_levels, i + 1, current_time, next_levels[i][1])
             ELSE Scan(next_levels, i + 1, current_time, candidate_level)

\* LevelSelector.next_level(current_level, current_time), the level has requirements
SelectedLevel_AlwaysScanned(current_level, current_time) ==
    Scan(level_requirements[LevelName(current_level + 1)], 1, current_time, None)

SelectedLevel(current_level, current_time) ==
    LET next_levels == level_requirements[LevelName(current_level + 1)]
    IN  IF Len(next_levels) = 1
        THEN next_levels[1][1]
        ELSE Scan(next_levels, 1, current_time, None)

\* add_known_tool(tool)
add_known_tool ==
    \E tool \in Tools :
        /\ known_tools' = IF Known(tool) THEN known_tools
                          ELSE Append(known_tools, tool)
        /\ last' = Call("add_known_tool", tool, None, "", <<>>)
        /\ UNCHANGED <<variant, level_mapping, gameVars, level_requirements,
                       hintVars, flagVars, clock, failed_calls>>

\* LevelSelector.next_level(current_level, current_time)
SelectNext ==
    \E current_level \in {1, 2}, current_time \in 0..MaxElapsed :
        /\ last' =
            IF LevelName(current_level + 1) \notin DOMAIN level_requirements
            THEN Call("select_next_level", <<current_level, current_time>>,
                      None, "KeyError", <<>>)
            ELSE Call("select_next_level", <<current_level, current_time>>,
                      SelectedLevel(current_level, current_time), "", <<>>)
        /\ UNCHANGED <<variant, level_mapping, gameVars, selectorVars,
                       hintVars, flagVars, clock, failed_calls>>

\* the requirement files a constructed LevelSelector is given to read
RequirementFiles ==
    { [l \in {"level2"} |->
          [i \in DOMAIN reqs |-> <<CandidateName(i), reqs[i]>>]] :
      reqs \in { <<NoRequirements>>,
                 <<NoRequirements, <<2, "nmap">>>>,
                 <<<<1, "ssh">>, <<2, "nmap">>>> } }

\* read_level_requirements(filename): the requirements are replaced by what
\* the file holds, the known tools stay; OSError when it cannot be opened
read_level_requirements ==
    /\ \/ \E requirements \in RequirementFiles :
             /\ level_requirements' = requirements
             /\ last' = Call("read_level_requirements", "file", None, "", <<>>)
       \/ /\ level_requirements' = level_requirements
          /\ last' = Call("read_level_requirements", "missing", None,
                          "OSError", <<>>)
    /\ UNCHANGED <<variant, level_mapping, gameVars, known_tools, hintVars,
                   flagVars, clock, failed_calls>>

SelectorNext == add_known_tool \/ SelectNext \/ read_level_requirements

InitSelector == GameIdle /\ SelectorInit /\ HintsIdle /\ FlagsIdle /\ EnvInit

SpecSelector == InitSelector /\ [][SelectorNext]_vars

-----------------------------------------------------------------------------
(* HintGiver (hint_giver.py) *)

\* the hint file: level -> level+branch -> hint name -> hint text
Catalog ==
    [l \in {"level1", "level2"} |->
        IF l = "level1"
        THEN [k \in {"level1"} |->
                [n \in {"nmap", "ports"} |-> "text of " \o n \o " on " \o k]]
        ELSE [k \in {"level2a", "level2b"} |->
                IF k = "level2a"
                THEN [n \in {"nmap", "ports"} |-> "text of " \o n \o " on " \o k]
                ELSE [n \in {"ports"} |-> "text of " \o n \o " on " \o k]]]

\* the (level, branch) and hint names callers ask for
HintKeys == {<<"level1", "">>, <<"level2", "a">>, <<"level2", "b">>, <<"level2", "z">>}
HintNames == {"nmap", "ports"}

\* callers ask for hints of the levels the hint file has
AskedKeys == {key \in HintKeys : key[1] \in DOMAIN hints}

HintsInit ==
    /\ hints = Catalog
    /\ hints_taken = <<>>
    /\ total_hints_taken = 0

\* the lookup self.hints[level][level+branch][hint_name] finds a hint
HintInFile(lvl, br, hint_name) ==
    /\ lvl \in DOMAIN hints
    /\ lvl \o br \in DOMAIN hints[lvl]
    /\ hint_name \in DOMAIN hints[lvl][lvl \o br]

\* is_hint_name(level, branch, hint_name): what it returns, or the KeyError
\* it raises for a level or a level+branch the hint file does not have
is_hint_name(lvl, br, hint_name) ==
    IF lvl \notin DOMAIN hints THEN [ret |-> None, exc |-> "KeyError"]
    ELSE IF lvl \o br \notin DOMAIN hints[lvl] THEN [ret |-> None, exc |-> "KeyError"]
    ELSE IF hint_name \in DOMAIN hints[lvl][lvl \o br]
    THEN [ret |-> True, exc |-> ""]
    ELSE [ret |-> False, exc |-> ""]

\* show_taken_hints(level, branch)
show_taken_hints(lvl, br) ==
    IF lvl \o br \notin DOMAIN hints_taken THEN <<>> ELSE hints_taken[lvl \o br]

InSeq(x, seq) == \E i \in DOMAIN seq : seq[i] = x

\* lines 28-32 of take_hint: the hint log and the counter after the call
TakenAfter_AlwaysAppended(lvl, br, hint_name) ==
    [k \in DOMAIN hints_taken \cup {lvl \o br} |->
        IF k = lvl \o br
        THEN Append(show_taken_hints(lvl, br), hint_name)
        ELSE hints_taken[k]]

TakenAfter(lvl, br, hint_name) ==
    [k \in DOMAIN hints_taken \cup {lvl \o br} |->
        IF k = lvl \o br /\ ~InSeq(hint_name, show_taken_hints(lvl, br))
        THEN Append(show_taken_hints(lvl, br), hint_name)
        ELSE IF k = lvl \o br THEN show_taken_hints(lvl, br)
        ELSE hints_taken[k]]

TotalAfter(lvl, br, hint_name) ==
    IF InSeq(hint_name, show_taken_hints(lvl, br))
    THEN total_hints_taken
    ELSE total_hints_taken + 1

\* take_hint(level, branch, hint_name): the log and the counter are updated
\* before line 33 looks the hint up and returns its text or raises KeyError
take_hint ==
    \E key \in AskedKeys, hint_name \in HintNames :
        /\ hints_taken' = TakenAfter(key[1], key[2], hint_name)
        /\ total_hints_taken' = TotalAfter(key[1], key[2], hint_name)
        /\ last' =
            IF HintInFile(key[1], key[2], hint_name)
            THEN Call("take_hint", <<key[1], key[2], hint_name>>,
                      hints[key[1]][key[1] \o key[2]][hint_name], "", <<>>)
            ELSE Call("take_hint", <<key[1], key[2], hint_name>>,
                      None, "KeyError", <<>>)
        /\ UNCHANGED <<variant, level_mapping, gameVars, selectorVars, hints,
                       flagVars, clock, failed_calls>>

\* HintGiver.restart_game()
restart_game_CounterKept ==
    /\ hints_taken' = <<>>
    /\ last' = Call("restart_game", "", None, "", <<>>)
    /\ UNCHANGED <<variant, level_mapping, gameVars, selectorVars, hints,
                   total_hints_taken, flagVars, clock, failed_calls>>

restart_game ==
    /\ total_hints_taken' = 0
    /\ hints_taken' = <<>>
    /\ last' = Call("restart_game", "", None, "", <<>>)
    /\ UNCHANGED <<variant, level_mapping, gameVars, selectorVars, hints,
                   flagVars, clock, failed_calls>>

\* a call of is_hint_name(level, branch, hint_name)
CheckHintName ==
    \E key \in AskedKeys, hint_name \in HintNames :
        /\ last' = Call("is_hint_name", <<key[1], key[2], hint_name>>,
                        is_hint_name(key[1], key[2], hint_name).ret,
                        is_hint_name(key[1], key[2], hint_name).exc, <<>>)
        /\ UNCHANGED <<variant, level_mapping, gameVars, selectorVars, hintVars,
                       flagVars, clock, failed_calls>>

\* a hint file with one hint, for the first level
LevelOneCatalog ==
    [l \in {"level1"} |-> [k \in {"level1"} |-> [n \in {"nmap"} |-> "text of nmap"]]]

\* the hint files a constructed HintGiver is given to read
HintFiles == {Catalog, LevelOneCatalog}

\* read_hint_file(hint_filename): the hints are replaced by what the file
\* holds, the hints taken and their counter stay; OSError when the file
\* cannot be opened
read_hint_file ==
    /\ \/ \E hint_file \in HintFiles :
             /\ hints' = hint_file
             /\ last' = Call("read_hint_file", "file", None, "", <<>>)
       \/ /\ hints' = hints
          /\ last' = Call("read_hint_file", "missing", None, "OSError", <<>>)
    /\ UNCHANGED <<variant, level_mapping, gameVars, selectorVars,
                   hints_taken, total_hints_taken, flagVars, clock,
                   failed_calls>>

\* the calls of a hint giver that read no file
HintCalls == take_hint \/ restart_game \/ CheckHintName

HintNext == HintCalls \/ read_hint_file

InitHints == GameIdle /\ SelectorIdle /\ HintsInit /\ FlagsIdle /\ EnvInit

SpecHints == InitHints /\ [][HintNext]_vars

-----------------------------------------------------------------------------
(* The hint giver next to the game: a game of two levels whose hint file   *)
(* has one hint for the first                                              *)

LedgerInit ==
    /\ GameFresh
    /\ variant \in {"module", "assistant"}
    /\ level_mapping \in {MakeGraph(<<Unforked, Unforked>>),
                          MakeGraph(<<Unforked, {"a"}>>)}
    /\ level = 0
    /\ branch = ""
    /\ hints = LevelOneCatalog
    /\ hints_taken = <<>>
    /\ total_hints_taken = 0

LedgerNext == GameNext \/ HintCalls

InitLedger == LedgerInit /\ SelectorIdle /\ FlagsIdle /\ EnvInit

SpecLedger == InitLedger /\ [][LedgerNext]_vars

-----------------------------------------------------------------------------
(* FlagChecker (flag_checker.py) *)

MaxWrongFlags == 3      \* most wrong flags logged, all levels together

\* the flag file: level -> flag
FlagRegistries ==
    { [l \in {"level1", "level2"} |-> IF l = "level1" THEN "flag1" ELSE "flag2"],
      [l \in {"level1", "level2"} |-> "flag1"] }

\* the levels and flags callers submit; "level3" has no flag
FlagLevels == {"level1", "level2", "level3"}
Submissions == {"flag1", "flag2", "oops"}

FlagsInit ==
    /\ flags \in FlagRegistries
    /\ wrong_flags = <<>>

\* the wrong flags logged for a level, none when the level has no entry
WrongFlagsOf(lvl) ==
    IF lvl \in DOMAIN wrong_flags THEN wrong_flags[lvl] ELSE <<>>

\* the number of wrong flags logged, all levels together
RECURSIVE WrongFlagsLogged(_)
WrongFlagsLogged(lvls) ==
    IF lvls = {} THEN 0
    ELSE LET lvl == CHOOSE l \in lvls : TRUE
         IN  Len(wrong_flags[lvl]) + WrongFlagsLogged(lvls \ {lvl})

\* lines 23-25 of check_flag: wrong_flags after a wrong flag
WrongAfter_Deduplicated(lvl, flag) ==
    [l \in DOMAIN wrong_flags \cup {lvl} |->
        IF l = lvl /\ ~InSeq(flag, WrongFlagsOf(lvl))
        THEN Append(WrongFlagsOf(lvl), flag)
        ELSE WrongFlagsOf(l)]

WrongAfter_Restarted(lvl, flag) ==
    [l \in DOMAIN wrong_flags \cup {lvl} |->
        IF l = lvl THEN <<flag>> ELSE wrong_flags[l]]

WrongAfter(lvl, flag) ==
    [l \in DOMAIN wrong_flags \cup {lvl} |->
        IF l = lvl THEN Append(WrongFlagsOf(lvl), flag) ELSE wrong_flags[l]]

\* check_flag(level, flag): KeyError for a level without flag (line 20),
\* True for the flag of the level, else the flag is logged and False returned
check_flag ==
    \E lvl \in FlagLevels, flag \in Submissions :
        /\ (lvl \in DOMAIN flags /\ flags[lvl] # flag) =>
                WrongFlagsLogged(DOMAIN wrong_flags) < MaxWrongFlags
        /\ wrong_flags' =
            IF lvl \in DOMAIN flags /\ flags[lvl] # flag
            THEN WrongAfter(lvl, flag)
            ELSE wrong_flags
        /\ last' =
            IF lvl \notin DOMAIN flags
            THEN Call("check_flag", <<lvl, flag>>, None, "KeyError", <<>>)
            ELSE IF flags[lvl] = flag
            THEN Call("check_flag", <<lvl, flag>>, True, "", <<>>)
            ELSE Call("check_flag", <<lvl, flag>>, False, "", <<>>)
        /\ UNCHANGED <<variant, level_mapping, gameVars, selectorVars, hintVars,
                       flags, clock, failed_calls>>

\* Game("levels.yml", "../game"): the game with the default level and branch
GameDefault ==
    /\ GameFresh
    /\ variant \in {"module", "assistant"}
    /\ level_mapping = MakeGraph(<<Unforked, Unforked>>)
    /\ level = 0
    /\ branch = ""

\* read_keys(filename): the flags are replaced by what the file holds, the
\* wrong flags logged stay; OSError when the file cannot be opened
read_keys ==
    /\ \/ \E keys \in FlagRegistries :
             /\ flags' = keys
             /\ last' = Call("read_keys", "file", None, "", <<>>)
       \/ /\ flags' = flags
          /\ last' = Call("read_keys", "missing", None, "OSError", <<>>)
    /\ UNCHANGED <<variant, level_mapping, gameVars, selectorVars, hintVars,
                   wrong_flags, clock, failed_calls>>

\* the flag checker next to a game and a hint giver that are reset
FlagNext == check_flag \/ abort_game \/ restart_game \/ read_keys

InitFlags == GameDefault /\ SelectorIdle /\ HintsIdle /\ FlagsInit /\ EnvInit

SpecFlags == InitFlags /\ [][FlagNext]_vars

-----------------------------------------------------------------------------
(* Properties of the game state machine (specification Spec) *)

TransitionCalls == {"start_game", "next_level", "finish_game"}
AdvanceErrors == {"NotStarted", "NoNextLevel", "BranchNotFound", "UnexpectedBranch"}

\* C1 as stated: the lifecycle changes only from NOT_STARTED to IN_PROGRESS
\* by a successful Start, from IN_PROGRESS to FINISHED by a successful Finish
\* and from anywhere to NOT_STARTED by Abort; Start, Advance and Finish
\* leave FINISHED as it is.
C1_LifecycleAsStated ==
    [][ /\ Lifecycle' # Lifecycle =>
            \/ /\ Lifecycle = "NOT_STARTED" /\ Lifecycle' = "IN_PROGRESS"
               /\ last'.op = "start_game" /\ last'.ret = True
            \/ /\ Lifecycle = "IN_PROGRESS" /\ Lifecycle' = "FINISHED"
               /\ last'.op = "finish_game" /\ last'.ret = True
            \/ /\ Lifecycle' = "NOT_STARTED"
               /\ last'.op = "abort_game"
        /\ (Lifecycle = "FINISHED" /\ last'.op \in TransitionCalls) =>
            Lifecycle' = "FINISHED"
      ]_vars

\* C1 amended: the same, but NOT_STARTED -> IN_PROGRESS is taken by every
\* Start that is not refused, also by one whose "vagrant up" then raises.
C1_Lifecycle ==
    [][ /\ Lifecycle' # Lifecycle =>
            \/ /\ Lifecycle = "NOT_STARTED" /\ Lifecycle' = "IN_PROGRESS"
               /\ last'.op = "start_game" /\ last'.ret # False
            \/ /\ Lifecycle = "IN_PROGRESS" /\ Lifecycle' = "FINISHED"
               /\ last'.op = "finish_game" /\ last'.ret = True
            \/ /\ Lifecycle' = "NOT_STARTED"
               /\ last'.op = "abort_game"
        /\ (Lifecycle = "FINISHED" /\ last'.op \in TransitionCalls) =>
            Lifecycle' = "FINISHED"
      ]_vars

\* a refused Start on a finished game
C1_Witness ==
    /\ Lifecycle = "FINISHED"
    /\ last.op = "start_game"
    /\ last.ret = False

\* C2: Start on a game in progress or finished returns False, changes no
\* attribute of the game and runs no subprocess.
C2_StartRefusedDoesNothing ==
    [][ (last'.op = "start_game" /\ Lifecycle \in {"IN_PROGRESS", "FINISHED"}) =>
            /\ last'.ret = False
            /\ last'.exc = ""
            /\ last'.calls = <<>>
            /\ UNCHANGED gameVars
      ]_vars

\* the second of two Start calls
C2_Witness ==
    /\ Lifecycle = "IN_PROGRESS"
    /\ level = 1
    /\ last.op = "start_game"
    /\ last.ret = False

\* C3: every Advance that returns raises level by one, and after it, and
\* after a Start that returns True, level_log is as long as level.
C3_MonotonicAdvance ==
    [][ /\ (last'.op = "next_level" /\ last'.exc = "") =>
            (level' = level + 1 /\ Len(level_log') = level')
        /\ (last'.op = "start_game" /\ last'.ret = True) =>
            Len(level_log') = level'
      ]_vars

\* two Advance calls have returned
C3_Witness ==
    /\ last.op = "next_level"
    /\ last.exc = ""
    /\ level = 3
    /\ Len(level_log) = 3

\* C4 as stated: level_log and load_times are always equally long, and in
\* progress solving_times is one shorter than load_times.
C4_LengthsAsStated ==
    /\ Len(level_log) = Len(load_times)
    /\ Lifecycle = "IN_PROGRESS" => Len(solving_times) = Len(load_times) - 1

\* C4 amended: level_log is longer than load_times by the number of Start
\* and Advance calls that raised after they had changed the state (since
\* construction or the last Abort), and in progress solving_times is one
\* shorter than level_log.
C4_Lengths ==
    /\ Len(level_log) = Len(load_times) + failed_calls
    /\ Lifecycle = "IN_PROGRESS" => Len(solving_times) = Len(level_log) - 1

\* a level was provisioned after an earlier call had failed
C4_Witness ==
    /\ Lifecycle = "IN_PROGRESS"
    /\ failed_calls = 1
    /\ last.op = "next_level"
    /\ last.exc = ""
    /\ Len(load_times) = 1

\* no check of next_level_branch_check matches the token
MatchesNoBranch(token) ==
    /\ LevelName(level + 1) \o token \notin NextBranches
    /\ "level" \o token \notin NextBranches
    /\ token \notin NextBranches

\* C5: Advance raises NotStarted out of IN_PROGRESS, NoNextLevel on the last
\* level, BranchNotFound for a token no branch of a forked level matches and
\* UnexpectedBranch for a token given to an unforked level; each of these
\* leaves the game as it was and runs no subprocess.
C5_AdvanceErrors ==
    [][ last'.op = "next_level" =>
            /\ Lifecycle # "IN_PROGRESS" => last'.exc = "NotStarted"
            /\ (Lifecycle = "IN_PROGRESS" /\ ~next_level_exists) =>
                    last'.exc = "NoNextLevel"
            /\ (/\ Lifecycle = "IN_PROGRESS" /\ next_level_exists
                /\ Cardinality(NextBranches) > 1
                /\ MatchesNoBranch(last'.arg)) =>
                    last'.exc = "BranchNotFound"
            /\ (/\ Lifecycle = "IN_PROGRESS" /\ next_level_exists
                /\ Cardinality(NextBranches) <= 1
                /\ last'.arg # "") =>
                    last'.exc = "UnexpectedBranch"
            /\ last'.exc \in AdvanceErrors =>
                    (UNCHANGED gameVars /\ last'.calls = <<>>)
      ]_vars

\* a token no branch matches was refused on a started game
C5_Witness ==
    /\ Lifecycle = "IN_PROGRESS"
    /\ last.op = "next_level"
    /\ last.arg = "z"
    /\ last.exc = "BranchNotFound"

\* C6: Finish while a next level exists returns False and leaves the
\* lifecycle, solving_times and game_end_time as they were.
C6_FinishGating ==
    [][ (last'.op = "finish_game" /\ next_level_exists) =>
            /\ last'.ret = False
            /\ UNCHANGED <<game_in_progress, game_finished, solving_times,
                           game_end_time>>
      ]_vars

\* Finish was refused in progress, before the last level
C6_Witness ==
    /\ Lifecycle = "IN_PROGRESS"
    /\ next_level_exists
    /\ last.op = "finish_game"
    /\ last.ret = False

\* C7: every Abort call leaves level 0, branch "", NOT_STARTED and the three
\* logs empty, and a second Abort leaves what the first left.
C7_AbortResets ==
    [][ last'.op = "abort_game" =>
            /\ level' = 0
            /\ branch' = ""
            /\ Lifecycle' = "NOT_STARTED"
            /\ level_log' = <<>>
            /\ load_times' = <<>>
            /\ solving_times' = <<>>
            /\ last.op = "abort_game" => UNCHANGED gameVars
      ]_vars

\* C13: a Start that returns True leaves level 1, branch "", the log
\* <<"level1">>, one load time, no solving time, both timestamps read from
\* the clock during the call and the lifecycle IN_PROGRESS.
C13_StartPostcondition ==
    [][ (last'.op = "start_game" /\ last'.ret = True) =>
            /\ Lifecycle = "NOT_STARTED"
            /\ level' = 1
            /\ branch' = ""
            /\ level_log' = <<"level1">>
            /\ Len(load_times') = 1
            /\ solving_times' = <<>>
            /\ level_start_time' \in clock..clock'
            /\ game_start_time' \in level_start_time'..clock'
            /\ Lifecycle' = "IN_PROGRESS"
      ]_vars

\* C14: Finish returns True iff the game is in progress and there is no
\* next level; then it appends one solving time (the whole seconds since
\* level_start_time at a clock read of the call), sets game_end_time from
\* the clock, makes the lifecycle FINISHED and leaves level, branch,
\* level_log and load_times as they were.
C14_FinishPostcondition ==
    [][ last'.op = "finish_game" =>
            /\ last'.ret \in {True, False}
            /\ last'.ret = True <=>
                    (Lifecycle = "IN_PROGRESS" /\ ~next_level_exists)
            /\ last'.ret = True =>
                /\ \E t \in clock..clock' :
                      solving_times' =
                          Append(solving_times, IntSeconds(t - level_start_time))
                /\ game_end_time' \in clock..clock'
                /\ Lifecycle' = "FINISHED"
                /\ UNCHANGED <<level, branch, level_log, load_times>>
      ]_vars

\* the game was finished on the last of three levels, the second one forked
C14_Witness ==
    /\ last.op = "finish_game"
    /\ last.ret = True
    /\ Lifecycle = "FINISHED"
    /\ level_log = <<"level1", "level2a", "level3">>
    /\ Len(solving_times) = 3
    /\ game_end_time > 0

\* C15: after every Abort call that returns, each attribute of the game has
\* the value a Game constructed with the default level and branch has (level
\* 0, branch "", no game in progress or finished, empty logs, the three
\* timestamps 0), so that a following Start is not refused.
C15_AbortIsFullReset ==
    [][ (last'.op = "abort_game" /\ last'.exc = "") =>
            /\ level' = 0
            /\ branch' = ""
            /\ Lifecycle' = "NOT_STARTED"
            /\ level_log' = <<>>
            /\ load_times' = <<>>
            /\ solving_times' = <<>>
            /\ game_start_time' = 0
            /\ level_start_time' = 0
            /\ game_end_time' = 0
            /\ StartAllowed'
      ]_vars

\* the attributes the specification's Abort resets: level 0, branch "", not
\* started, empty logs
CleanNotStarted ==
    /\ level = 0
    /\ branch = ""
    /\ Lifecycle = "NOT_STARTED"
    /\ level_log = <<>>
    /\ load_times = <<>>
    /\ solving_times = <<>>

\* C16: an Advance whose "vagrant up" raises passes the failure on and
\* leaves the game in progress on the next level: level raised by one, branch
\* a branch of that level ("" when it has one branch), the level's name
\* appended to level_log and one solving time appended; an Abort call
\* right after it leaves level 0, branch "", NOT_STARTED and empty logs.
C16_FailedAdvanceThenAbort ==
    [][ /\ (last'.op = "next_level" /\ last'.exc = "ProvisioningFailure") =>
            /\ Lifecycle = "IN_PROGRESS"
            /\ Lifecycle' = "IN_PROGRESS"
            /\ level' = level + 1
            /\ LevelName(level + 1) \o branch' \in NextBranches
            /\ ~next_level_is_forked => branch' = ""
            /\ level_log' = Append(level_log, LevelName(level + 1) \o branch')
            /\ \E t \in clock..clock' :
                  solving_times' =
                      Append(solving_times, IntSeconds(t - level_start_time))
            /\ load_times' = load_times
        /\ (/\ last.op = "next_level" /\ last.exc = "ProvisioningFailure"
            /\ last'.op = "abort_game") => CleanNotStarted'
      ]_vars

\* C17: every Abort call, whatever the lifecycle and whatever its snapshot
\* write meets (no directory, a written file, an OSError), runs "vagrant
\* destroy -f" once and no other subprocess, raises nothing and leaves level
\* 0, branch "", NOT_STARTED and empty logs.
C17_AbortAlwaysTearsDown ==
    [][ \A snapshot \in Snapshots :
          (last'.op = "abort_game" /\ last'.arg = snapshot) =>
            /\ last'.calls = <<VagrantDestroy>>
            /\ last'.exc = ""
            /\ CleanNotStarted'
      ]_vars

\* C22: in progress or finished, "level" + str(level) + branch is a branch
\* of the current level in level_mapping; stated for the states a next_level
\* call leaves once it is past its four checks, where it says that the
\* lookup of the level's boxes has not raised KeyError.
C22_CurrentLevelIsABranch ==
    (/\ Lifecycle \in {"IN_PROGRESS", "FINISHED"}
     /\ last.op = "next_level"
     /\ last.exc \notin AdvanceErrors) =>
        /\ LevelName(level) \in DOMAIN level_mapping
        /\ LevelName(level) \o branch \in DOMAIN level_mapping[LevelName(level)]
        /\ last.exc # "KeyError"

\* C24: game_in_progress and game_finished are never both True, so the
\* lifecycle is one of NOT_STARTED, IN_PROGRESS and FINISHED.
C24_FlagsExclusive ==
    /\ ~(game_in_progress /\ game_finished)
    /\ Lifecycle \in {"NOT_STARTED", "IN_PROGRESS", "FINISHED"}

\* a Start was refused on a finished game: game_finished is True and
\* game_in_progress stayed False
C24_Witness ==
    /\ game_finished
    /\ ~game_in_progress
    /\ last.op = "start_game"
    /\ last.ret = False
    /\ Len(solving_times) = level

\* C25: level is 0 exactly when the lifecycle is NOT_STARTED.
C25_LevelZeroIffNotStarted ==
    level = 0 <=> Lifecycle = "NOT_STARTED"

\* C26: in every state, also after a Start or Advance whose provisioning
\* call or lookup raised, load_times and solving_times are no longer than
\* level_log.
C26_TimesWithinLog ==
    /\ Len(load_times) <= Len(level_log)
    /\ Len(solving_times) <= Len(level_log)

\* the game was finished after an Advance had failed: a solving time for
\* each of the two levels of the log, a load time for one
C26_Witness ==
    /\ Lifecycle = "FINISHED"
    /\ failed_calls = 1
    /\ Len(level_log) = 2
    /\ Len(solving_times) = 2
    /\ Len(load_times) = 1

\* C27 as stated: finished, there is no next level and solving_times,
\* load_times and level_log all have as many entries as level.
C27_FinishedAsStated ==
    Lifecycle = "FINISHED" =>
        /\ ~next_level_exists
        /\ Len(solving_times) = level
        /\ Len(load_times) = level
        /\ Len(level_log) = level

\* C27 amended: in the finished state a step leads to, solving_times and
\* level_log have as many entries as level, and load_times has as many but
\* for one per Start or Advance call that raised after it had changed the
\* state (since construction or the last Abort); and there is no next
\* level, unless the step is a read_mapping call on the finished game or
\* the finished game had a next level before the step, which only such a
\* call brings about.
C27_Finished ==
    [][ Lifecycle' = "FINISHED" =>
          /\ Len(solving_times') = level'
          /\ Len(level_log') = level'
          /\ Len(load_times') = level' - failed_calls'
          /\ last'.op # "read_mapping" =>
                \/ ~next_level_exists'
                \/ Lifecycle = "FINISHED" /\ next_level_exists
      ]_vars

\* the game was finished on the third level; the Advance to it had failed
C27_Witness ==
    /\ Lifecycle = "FINISHED"
    /\ last.op = "finish_game"
    /\ level = 3
    /\ failed_calls = 1
    /\ Len(load_times) = 2
    /\ Len(solving_times) = 3

\* C28: in progress game_start_time <= level_start_time, and finished
\* game_start_time <= level_start_time <= game_end_time; so the total time
\* of a finished game, in whole seconds, is no smaller than any solving time
\* recorded.
C28_TimestampsOrdered ==
    /\ Lifecycle = "IN_PROGRESS" => game_start_time <= level_start_time
    /\ Lifecycle = "FINISHED" =>
        /\ game_start_time <= level_start_time
        /\ level_start_time <= game_end_time
        /\ \A i \in DOMAIN solving_times :
              solving_times[i] <= IntSeconds(game_end_time - game_start_time)

-----------------------------------------------------------------------------
(* Properties of the interactive branch resolver (specification SpecResolver) *)

\* the branch suffixes of the next level
NextSuffixes == {Slice(b, Len(LevelName(level + 1))) : b \in NextBranches}

\* the three ways to type the branch with suffix s of level n
TokenForms(n, s) == {s, Str(n) \o s, LevelName(n) \o s}

\* C8 as stated: for every forked next level N and suffix s of one of its
\* branches, the tokens s, N+s and "level"+N+s all resolve to s, and a token
\* that passes none of the three checks raises BranchNotFound.  (A token
\* N+s or "level"+N+s that is itself the suffix of a branch of level N is
\* read as that suffix.)
C8_ResolveAsStated ==
    (/\ last.op = "next_level_branch_check"
     /\ next_level_exists
     /\ Cardinality(NextBranches) > 1) =>
        /\ \A s \in NextSuffixes :
                last.arg \in {s} \cup (TokenForms(level + 1, s) \ NextSuffixes) =>
                    (last.exc = "" /\ last.ret = s)
        /\ MatchesNoBranch(last.arg) => last.exc = "BranchNotFound"

\* C8 amended: the same for every forked next level N below 10.
C8_Resolve ==
    (/\ last.op = "next_level_branch_check"
     /\ next_level_exists
     /\ Cardinality(NextBranches) > 1
     /\ level + 1 < 10) =>
        /\ \A s \in NextSuffixes :
                last.arg \in {s} \cup (TokenForms(level + 1, s) \ NextSuffixes) =>
                    (last.exc = "" /\ last.ret = s)
        /\ MatchesNoBranch(last.arg) => last.exc = "BranchNotFound"

\* "level2a" was resolved to "a" for the forked level 2
C8_Witness ==
    /\ last.op = "next_level_branch_check"
    /\ level = 1
    /\ Cardinality(NextBranches) > 1
    /\ last.arg = "level2a"
    /\ last.ret = "a"

\* C21: for a forked next level N, a token for which "level"+N+token is a
\* branch of level N is returned as it is, also when "level"+token or the
\* token itself is a branch of level N too.
C21_FirstCheckDecides ==
    (/\ last.op = "next_level_branch_check"
     /\ next_level_exists
     /\ Cardinality(NextBranches) > 1
     /\ LevelName(level + 1) \o last.arg \in NextBranches) =>
        /\ last.exc = ""
        /\ last.ret = last.arg

\* "2a" is the suffix of the branch level22a and, after "level", the branch
\* level2a: it was resolved to "2a"
C21_Witness ==
    /\ last.op = "next_level_branch_check"
    /\ level = 1
    /\ level_mapping = DigitSuffix
    /\ last.arg = "2a"
    /\ LevelName(level + 1) \o last.arg \in NextBranches
    /\ "level" \o last.arg \in NextBranches
    /\ last.ret = "2a"

-----------------------------------------------------------------------------
(* Properties of the adaptive branch resolver (specification SpecSelector) *)

\* the candidate qualifies: no requirements, or time under the threshold and
\* the tool known
Qualifies(candidate, current_time) ==
    \/ candidate[2] = NoRequirements
    \/ /\ candidate[2] # NoRequirements
       /\ candidate[2][1] > current_time
       /\ \E i \in DOMAIN known_tools : known_tools[i] = candidate[2][2]

\* C9: of a list of more than one candidate the resolver returns the last
\* one that qualifies, and None iff none qualifies.
C9_LastMatchWins ==
    (/\ last.op = "select_next_level"
     /\ last.exc = ""
     /\ Len(level_requirements[LevelName(last.arg[1] + 1)]) > 1) =>
        LET next_levels == level_requirements[LevelName(last.arg[1] + 1)]
            qualifying == {i \in DOMAIN next_levels :
                              Qualifies(next_levels[i], last.arg[2])}
        IN  /\ qualifying = {} <=> last.ret = None
            /\ qualifying # {} =>
                 \E i \in qualifying :
                    /\ \A j \in qualifying : j <= i
                    /\ last.ret = next_levels[i][1]

\* the example of the specification, scaled: [a: None, b: (2, nmap),
\* c: (1, ssh)], elapsed time 1, known tools [ssh], gives a
C9_Witness ==
    /\ last.op = "select_next_level"
    /\ last.arg = <<1, 1>>
    /\ level_requirements["level2"] =
          << <<"level2a", NoRequirements>>, <<"level2b", <<2, "nmap">> >>,
             <<"level2c", <<1, "ssh">> >> >>
    /\ known_tools = <<"ssh">>
    /\ last.ret = "level2a"

\* C20: of a list of exactly one candidate the resolver returns that
\* candidate, whatever its requirements, the elapsed time and the known
\* tools are.
C20_SingleCandidate ==
    (/\ last.op = "select_next_level"
     /\ last.exc = ""
     /\ Len(level_requirements[LevelName(last.arg[1] + 1)]) = 1) =>
        last.ret = level_requirements[LevelName(last.arg[1] + 1)][1][1]

\* the only candidate asks for nmap under 1 second; elapsed time 2 and only
\* ssh known
C20_Witness ==
    /\ last.op = "select_next_level"
    /\ last.arg = <<1, 2>>
    /\ level_requirements["level2"] = << <<"level2a", <<1, "nmap">> >> >>
    /\ known_tools = <<"ssh">>
    /\ ~Qualifies(level_requirements["level2"][1], 2)
    /\ last.ret = "level2a"

-----------------------------------------------------------------------------
(* Properties of the hint giver (specification SpecHints) *)

IsPrefix(seq1, seq2) ==
    /\ Len(seq1) <= Len(seq2)
    /\ \A i \in DOMAIN seq1 : seq1[i] = seq2[i]

Occurrences(x, seq) == Cardinality({i \in DOMAIN seq : seq[i] = x})

\* C10: a take_hint call for a hint of the catalog raises the counter by one
\* and appends the name when the name is not yet among the taken hints of
\* its (level, branch), and changes neither when it is; every take_hint call
\* keeps what each (level, branch) had taken as a prefix; so the name is
\* there once, where it was first put.
C10_HintDedup ==
    [][ \A asked \in HintKeys, hint_name \in HintNames :
          (/\ last'.op = "take_hint"
           /\ last'.arg = <<asked[1], asked[2], hint_name>>
           /\ HintInFile(asked[1], asked[2], hint_name)) =>
            /\ InSeq(hint_name, show_taken_hints(asked[1], asked[2])) =>
                /\ total_hints_taken' = total_hints_taken
                /\ show_taken_hints(asked[1], asked[2])' =
                      show_taken_hints(asked[1], asked[2])
            /\ ~InSeq(hint_name, show_taken_hints(asked[1], asked[2])) =>
                /\ total_hints_taken' = total_hints_taken + 1
                /\ show_taken_hints(asked[1], asked[2])' =
                      Append(show_taken_hints(asked[1], asked[2]), hint_name)
            /\ Occurrences(hint_name, show_taken_hints(asked[1], asked[2])') = 1
            /\ \A key \in HintKeys :
                  IsPrefix(show_taken_hints(key[1], key[2]),
                           show_taken_hints(key[1], key[2])')
      ]_vars

\* "nmap" of level 2a was asked for again after "ports" had been taken
C10_Witness ==
    /\ last.op = "take_hint"
    /\ last.arg = <<"level2", "a", "nmap">>
    /\ show_taken_hints("level2", "a") = <<"nmap", "ports">>
    /\ total_hints_taken = 3

\* C11: a take_hint call for a name that is not in the catalog of its
\* (level, branch) raises (the code's KeyError is the UnknownHint of the
\* specification) and leaves the taken hints of every (level, branch) and
\* the counter as they were.
C11_UnknownHintNoMutation ==
    [][ \A asked \in HintKeys, hint_name \in HintNames :
          (/\ last'.op = "take_hint"
           /\ last'.arg = <<asked[1], asked[2], hint_name>>
           /\ ~HintInFile(asked[1], asked[2], hint_name)) =>
            /\ last'.exc = "KeyError"
            /\ total_hints_taken' = total_hints_taken
            /\ \A key \in HintKeys :
                  show_taken_hints(key[1], key[2])' =
                      show_taken_hints(key[1], key[2])
      ]_vars

\* the sum of the lengths of the hint lists of the keys in keys
RECURSIVE TakenCount(_)
TakenCount(keys) ==
    IF keys = {} THEN 0
    ELSE LET key == CHOOSE k \in keys : TRUE
         IN  Len(hints_taken[key]) + TakenCount(keys \ {key})

\* the counter is the number of recorded names and no name is recorded twice
CounterAndNoDuplicates ==
    /\ total_hints_taken = TakenCount(DOMAIN hints_taken)
    /\ \A key \in DOMAIN hints_taken, hint_name \in HintNames :
          Occurrences(hint_name, hints_taken[key]) <= 1

\* C23: total_hints_taken is the sum of the lengths of the lists of
\* hints_taken, no list has a name twice, and every name recorded for a
\* (level, branch) is a hint of that (level, branch) in the hint file.
C23_LedgerConsistent ==
    /\ CounterAndNoDuplicates
    /\ \A asked \in HintKeys :
          \A i \in DOMAIN show_taken_hints(asked[1], asked[2]) :
              HintInFile(asked[1], asked[2],
                           show_taken_hints(asked[1], asked[2])[i])

-----------------------------------------------------------------------------
(* Properties of the flag checker (specification SpecFlags) *)

\* C12: for a level that has a flag, check_flag with another value returns
\* False and appends the value to the wrong flags of that level (also when
\* the value is there already) and leaves the wrong flags of the other
\* levels alone; check_flag with the flag of the level returns True and
\* leaves the wrong flags of every level alone.
C12_MismatchLogged ==
    [][ \A lvl \in DOMAIN flags, flag \in Submissions :
          (last'.op = "check_flag" /\ last'.arg = <<lvl, flag>>) =>
            /\ flag # flags[lvl] =>
                /\ last'.ret = False
                /\ last'.exc = ""
                /\ WrongFlagsOf(lvl)' = Append(WrongFlagsOf(lvl), flag)
                /\ \A other \in FlagLevels \ {lvl} :
                      WrongFlagsOf(other)' = WrongFlagsOf(other)
            /\ flag = flags[lvl] =>
                /\ last'.ret = True
                /\ last'.exc = ""
                /\ \A other \in FlagLevels :
                      WrongFlagsOf(other)' = WrongFlagsOf(other)
      ]_vars

\* the same wrong flag was logged twice for level 1, then the right flag
\* was accepted
C12_Witness ==
    /\ last.op = "check_flag"
    /\ last.arg = <<"level1", "flag1">>
    /\ last.ret = True
    /\ WrongFlagsOf("level1") = <<"oops", "oops">>

\* C19: every step keeps the wrong flags each level had as a prefix of
\* those it has afterwards, so what was logged in an earlier state is a
\* prefix of what is logged in every later one; and every step of
\* check_flag, abort_game and restart_game leaves the flags of the levels
\* as they are.
C19_WrongFlagsGrow ==
    [][ /\ \A lvl \in FlagLevels :
              IsPrefix(WrongFlagsOf(lvl), WrongFlagsOf(lvl)')
        /\ last'.op \in {"check_flag", "abort_game", "restart_game"} =>
              flags' = flags
      ]_vars

\* the game was aborted after wrong flags had been logged for two levels
C19_Witness ==
    /\ last.op = "abort_game"
    /\ last.exc = ""
    /\ WrongFlagsOf("level1") = <<"oops", "flag2">>
    /\ WrongFlagsOf("level2") = <<"oops">>

-----------------------------------------------------------------------------
(* Properties of the hint giver next to the game (specification SpecLedger) *)

GameCalls == {"start_game", "next_level", "finish_game", "abort_game"}

\* C18: restart_game leaves no taken hint for any (level, branch) and the
\* counter 0, and changes no attribute of the game; start_game, next_level,
\* finish_game and abort_game, returning or raising, change neither the
\* taken hints nor the counter.
C18_RestartIndependent ==
    [][ /\ last'.op = "restart_game" =>
            /\ \A key \in HintKeys : show_taken_hints(key[1], key[2])' = <<>>
            /\ DOMAIN hints_taken' = {}
            /\ total_hints_taken' = 0
            /\ UNCHANGED gameVars
        /\ last'.op \in GameCalls =>
            UNCHANGED <<hints_taken, total_hints_taken>>
      ]_vars

\* the game was aborted and reset, and the two hints taken before are still
\* recorded and counted
C18_Witness ==
    /\ last.op = "abort_game"
    /\ last.exc = ""
    /\ Lifecycle = "NOT_STARTED"
    /\ level_log = <<>>
    /\ game_start_time = 0
    /\ show_taken_hints("level1", "") = <<"nmap", "ports">>
    /\ total_hints_taken = 2

=============================================================================
